---- MODULE Spec2Model ----
(***************************************************************************)
(* A model of the layer sweep of elk (src/elk/run.py, Run.apply_to_layers  *)
(* and Run.get_device) and of the metrics engine (src/elk/metrics/eval.py).*)
(*                                                                         *)
(* Spec      the sweep: the orchestrator, the worker pool, the table file. *)
(* EvalSpec  the metrics engine applied to bounded prediction tensors.     *)
(***************************************************************************)
EXTENDS Integers, Sequences, FiniteSets, TLC

\* ------------------------------------------------------------------ bounds
\* the longest sweep: layers 0 .. MaxLayers - 1
MaxLayers == 3
\* the largest number of devices (the size of the worker pool)
MaxDevices == 2
\* process ids of the pool's workers are drawn from 1 .. MaxPid
MaxPid == 4

\* the largest n (examples), v (prompt variants) and k (classes) of a
\* prediction tensor, and the largest number n * v * k of its entries
MaxN == 2
MaxV == 2
MaxK == 3
MaxElems == 8

\* ------------------------------------------------------------------ state
VARIABLES
    layers,        \* run.py:119 the list get_layers returns
    num_devices,   \* run.py:107
    raises,        \* the layers for which func raises
    pc,            \* where the orchestrator is in apply_to_layers
    pids,          \* the process id of each worker of mp.Pool(num_devices)
    nextTask,      \* position in layers of the next task not yet started
    busy,          \* per worker: <<>> when idle, <<l>> while running layer l
    device,        \* per worker: <<>> or <<d>>, the device get_device gave it
    outq,          \* results the workers have handed back, oldest first
    row_buf,       \* run.py:127
    exc,           \* the exception propagating in the orchestrator, <<>> if none
    fileExists,    \* whether out_dir / "eval.csv" exists
    fileRows,      \* the rows in that file
    \* history variables (observations of the run, read by no action's guard)
    writes,        \* how many times df.to_csv ran
    runningAtWrite,\* the workers that were running a layer when it ran
    completed,     \* the layers whose work returned a row, in completion order
    doneBeforeFail,\* the layers completed when the first layer's work raised
    workerExc,     \* the worker failure the loop re-raised, <<>> if none
    interrupted,   \* whether the loop was interrupted (KeyboardInterrupt)
    \* the metrics engine (EvalSpec)
    y_true,        \* eval.py:112 ground truth, a tensor of shape (n,)
    y_logits,      \* eval.py:113 predictions, a tensor of shape (n, v, k)
    epc,           \* "input", then "result", then "dict"
    handed,        \* the arguments evaluate_preds gave calc_eval_results
    result,        \* what evaluate_preds returned: the EvalResult or an error
    prefix_in,     \* the prefix to_dict was called with
    dict_out,      \* what EvalResult.to_dict(prefix) returned
    \* single calls of the other functions (CalSpec and the specs after it)
    op,            \* the function called
    args,          \* its arguments
    ret            \* <<>> before the call, then what the call produced

sweepVars == <<layers, num_devices, raises, pc, pids, nextTask, busy, device,
               outq, row_buf, exc, fileExists, fileRows, writes,
               runningAtWrite, completed, doneBeforeFail, workerExc,
               interrupted>>

evalVars == <<y_true, y_logits, epc, handed, result, prefix_in, dict_out>>

callVars == <<op, args, ret>>

vars == <<sweepVars, evalVars, callVars>>

Workers == 1 .. num_devices

\* ---------------------------------------------------------------- helpers
\* the layer indices 0 .. n-1 in order, as get_layers returns them
LayerList(n) == [i \in 1 .. n |-> i - 1]

Range(s) == {s[i] : i \in 1 .. Len(s)}

\* the row func returns for a layer: a pd.Series with a "layer" entry
Row(l) == [layer |-> l]

WorkerFailure(l) == <<"WorkerFailure", l>>
KeyboardInterrupt == <<"KeyboardInterrupt">>
KeyErrorLayer == <<"KeyError">>

\* run.py:57-59: rank = os.getpid() % world_size; devices[rank]
get_device(pid, world_size) == pid % world_size

\* a loop that keeps only the first row it is given
CollectRow_first_only(buf, row) == IF buf = <<>> THEN <<row>> ELSE buf

\* run.py:131
CollectRow(buf, row) == Append(buf, row)

RECURSIVE InsertByLayer(_, _)
InsertByLayer(s, r) ==
    IF s = <<>> THEN <<r>>
    ELSE IF r.layer < Head(s).layer THEN <<r>> \o s
    ELSE <<Head(s)>> \o InsertByLayer(Tail(s), r)

RECURSIVE SortRows(_)
SortRows(s) ==
    IF s = <<>> THEN <<>>
    ELSE InsertByLayer(SortRows(SubSeq(s, 1, Len(s) - 1)), s[Len(s)])

\* a frame written in the order the rows arrived
sort_values_omitted(buf) == buf

\* a frame sorted the wrong way round (ascending=False)
sort_values_descending(buf) ==
    LET s == SortRows(buf) IN [i \in 1 .. Len(s) |-> s[Len(s) + 1 - i]]

\* run.py:134: pd.DataFrame(row_buf).sort_values(by="layer")
sort_values(buf) == SortRows(buf)

\* a sort that accepts a frame without columns
SortRaises_never(buf) == FALSE

\* run.py:134: a frame built from no rows has no "layer" column, and
\* sort_values(by="layer") raises KeyError
SortRaises(buf) == buf = <<>>


\* ------------------------------------------------------- tensors (torch)
\* A tensor is [shape, at]: at maps each index tuple (0-based, as in torch)
\* to an entry. Float entries are exact rationals [num, den] with den > 0;
\* label entries are integers.
Front(s) == SubSeq(s, 1, Len(s) - 1)

RECURSIVE Indices(_)
Indices(shape) ==
    IF shape = <<>> THEN {<<>>}
    ELSE {<<i>> \o r : i \in 0 .. shape[1] - 1, r \in Indices(Tail(shape))}

Rat(n, d) == [num |-> n, den |-> d]
RatAdd(a, b) == Rat(a.num * b.den + b.num * a.den, a.den * b.den)
RatSub(a, b) == Rat(a.num * b.den - b.num * a.den, a.den * b.den)
RatLess(a, b) == a.num * b.den < b.num * a.den
RatEq(a, b) == a.num * b.den = b.num * a.den

RECURSIVE RatSum(_, _)
\* f[0] + ... + f[m-1]
RatSum(f, m) == IF m = 0 THEN Rat(0, 1) ELSE RatAdd(RatSum(f, m - 1), f[m - 1])

\* eval.py:130 y_logits.mean(dim=1): (n, v, k) -> (n, k)
mean_dim1(t) ==
    LET v == t.shape[2]
        shape == <<t.shape[1], t.shape[3]>>
    IN [shape |-> shape,
        at |-> [idx \in Indices(shape) |->
                  LET s == RatSum([j \in 0 .. v - 1 |-> t.at[<<idx[1], j, idx[2]>>]], v)
                  IN Rat(s.num, s.den * v)]]

\* eval.py:132 repeat(y_true, "n -> n v", v=num_variants): (n,) -> (n, v)
repeat_n_v(t, v) ==
    LET shape == <<t.shape[1], v>>
    IN [shape |-> shape, at |-> [idx \in Indices(shape) |-> t.at[<<idx[1]>>]]]

\* t[..., c]
select_last(t, c) ==
    LET shape == Front(t.shape)
    IN [shape |-> shape, at |-> [idx \in Indices(shape) |-> t.at[idx \o <<c>>]]]

\* eval.py:107 y_logits.argmax(dim=-1): the first index of a maximal entry
argmax_last(t) ==
    LET shape == Front(t.shape)
        k == t.shape[Len(t.shape)]
    IN [shape |-> shape,
        at |-> [idx \in Indices(shape) |->
                  CHOOSE c \in 0 .. k - 1 :
                    /\ \A c2 \in 0 .. k - 1 :
                         ~RatLess(t.at[idx \o <<c>>], t.at[idx \o <<c2>>])
                    /\ \A c2 \in 0 .. c - 1 :
                         RatLess(t.at[idx \o <<c2>>], t.at[idx \o <<c>>])]]

\* eval.py:152 torch.sigmoid(y_logits[..., 1] - y_logits[..., 0]). The
\* sigmoid of x is kept as the term [sigmoid |-> x]: the function is
\* strictly increasing, so terms are ordered by x.
sigmoid_diff(t) ==
    LET hi == select_last(t, 1)
        lo == select_last(t, 0)
    IN [shape |-> hi.shape,
        at |-> [idx \in Indices(hi.shape) |->
                  [sigmoid |-> RatSub(hi.at[idx], lo.at[idx])]]]

\* the entries of a tensor in row-major order (flatten)
RECURSIVE IndexSeq(_)
IndexSeq(shape) ==
    IF shape = <<>> THEN << <<>> >>
    ELSE LET rest == IndexSeq(Tail(shape))
             m == Len(rest)
         IN [p \in 1 .. shape[1] * m |->
               <<(p - 1) \div m>> \o rest[((p - 1) % m) + 1]]

flatten(t) == LET ix == IndexSeq(t.shape) IN [p \in 1 .. Len(ix) |-> t.at[ix[p]]]

\* ------------------------------------------ estimators outside eval.py
None == <<>>
Some(x) == <<x>>

\* accuracy_ci(y_true, y_pred): AccuracyResult; the point estimate is the
\* share of entries where the prediction equals the label; the interval is
\* a bootstrap
accuracy_ci(yt, yp) ==
    LET hits == {idx \in Indices(yt.shape) : yt.at[idx] = yp.at[idx]}
    IN [point |-> Rat(Cardinality(hits), Cardinality(Indices(yt.shape))),
        low |-> "bootstrap", high |-> "bootstrap"]

\* roc_auc_ci(y_true, scores): RocAucResult; kept as what it was fed
roc_auc_ci(yt, scores) ==
    [point |-> [y_true |-> yt, scores |-> scores],
     low |-> "bootstrap", high |-> "bootstrap"]

\* CalibrationError().update(y_true, probs).compute(): CalibrationEstimate
calibration_error(yt, probs) ==
    [ece |-> [y_true |-> yt, probs |-> probs], num_bins |-> "bins"]

\* dataclasses.asdict of AccuracyResult / RocAucResult, in field order
asdict(r) == << <<"point", r.point>>, <<"low", r.low>>, <<"high", r.high>> >>

\* ---------------------------------------------------- metrics/eval.py
EnsemblingModes == {"none", "partial", "full"}

\* eval.py:216-228 to_one_hot: (...,) -> (..., n_classes)
to_one_hot(labels, n_classes) ==
    LET shape == labels.shape \o <<n_classes>>
    IN [shape |-> shape,
        at |-> [idx \in Indices(shape) |->
                  IF labels.at[Front(idx)] = idx[Len(idx)] THEN 1 ELSE 0]]

\* t.flatten(1): (n, a, b) -> (n, a * b); (n, a) -> (n, a)
flatten1(t) ==
    IF Len(t.shape) = 2 THEN t
    ELSE LET b == t.shape[3]
             shape == <<t.shape[1], t.shape[2] * b>>
         IN [shape |-> shape,
             at |-> [idx \in Indices(shape) |->
                       t.at[<<idx[1], idx[2] \div b, idx[2] % b>>]]]

\* elementwise t[..., 1] - t[..., 0]
diff_last(t) ==
    LET hi == select_last(t, 1)
        lo == select_last(t, 0)
    IN [shape |-> hi.shape,
        at |-> [idx \in Indices(hi.shape) |-> RatSub(hi.at[idx], lo.at[idx])]]

\* an unknown mode scored like partial instead of rejected
calc_auroc_lenient(logits, yt, ensembling, num_classes) ==
    IF ensembling = "none"
    THEN [ok |-> TRUE,
          value |-> roc_auc_ci(flatten1(to_one_hot(yt, num_classes)),
                               flatten1(logits))]
    ELSE IF num_classes = 2
    THEN [ok |-> TRUE, value |-> roc_auc_ci(yt, diff_last(logits))]
    ELSE [ok |-> TRUE, value |-> roc_auc_ci(to_one_hot(yt, num_classes), logits)]

\* eval.py:44-58
calc_auroc(logits, yt, ensembling, num_classes) ==
    IF ensembling = "none"
    THEN [ok |-> TRUE,
          value |-> roc_auc_ci(flatten1(to_one_hot(yt, num_classes)),
                               flatten1(logits))]
    ELSE IF ensembling \in {"partial", "full"}
    THEN IF num_classes = 2
         THEN [ok |-> TRUE, value |-> roc_auc_ci(yt, diff_last(logits))]
         ELSE [ok |-> TRUE,
               value |-> roc_auc_ci(to_one_hot(yt, num_classes), logits)]
    ELSE [ok |-> FALSE, value |-> <<"ValueError", "Unknown mode">>]

\* the p-th smallest (p from 1) of the sigmoid terms in sequence s
RECURSIVE InsertSorted(_, _)
InsertSorted(s, x) ==
    IF s = <<>> THEN <<x>>
    ELSE IF RatLess(x.sigmoid, Head(s).sigmoid) THEN <<x>> \o s
    ELSE <<Head(s)>> \o InsertSorted(Tail(s), x)

RECURSIVE SortProbs(_)
SortProbs(s) ==
    IF s = <<>> THEN <<>>
    ELSE InsertSorted(SortProbs(SubSeq(s, 1, Len(s) - 1)), s[Len(s)])

\* eval.py:73-74. quantile(q) of m values interpolates linearly between the
\* sorted values at positions floor(q (m-1)) and ceil(q (m-1)); q is
\* mean(y_true) = P / m. An entry exceeds the threshold iff it is at
\* least the upper value (when the threshold lies strictly between the
\* two) or exceeds the lower value (when the threshold is the lower value).
cal_preds(yt, pos_probs) ==
    LET probs == flatten(pos_probs)
        m == Len(probs)
        P == Cardinality({idx \in Indices(yt.shape) : yt.at[idx] = 1})
        sorted == SortProbs(probs)
        pos == P * (m - 1)
        lo == pos \div m
        exact == pos % m = 0
        s_lo == sorted[lo + 1].sigmoid
        s_hi == IF exact THEN s_lo ELSE sorted[lo + 2].sigmoid
        gt(x) == IF ~exact /\ RatLess(s_lo, s_hi)
                 THEN ~RatLess(x.sigmoid, s_hi)
                 ELSE RatLess(s_lo, x.sigmoid)
    IN [shape |-> pos_probs.shape,
        at |-> [idx \in Indices(pos_probs.shape) |->
                  IF gt(pos_probs.at[idx]) THEN 1 ELSE 0]]

\* eval.py:61-76
calc_calibrated_accuracies(yt, pos_probs) ==
    accuracy_ci(yt, cal_preds(yt, pos_probs))

\* eval.py:91-93
calc_calibrated_errors(yt, pos_probs) ==
    calibration_error(flatten(yt), flatten(pos_probs))

\* eval.py:107-108
calc_accuracies(logits, yt) == accuracy_ci(yt, argmax_last(logits))

\* calibrated accuracy and error computed whatever the number of classes
CalFields_always(yt, logits, num_classes) ==
    [cal_accuracy |->
         Some(calc_calibrated_accuracies(yt, sigmoid_diff(logits))),
     calibration |->
         Some(calc_calibrated_errors(yt, sigmoid_diff(logits)))]

\* eval.py:153-162: calibrated accuracy and error only for two classes
CalFields(yt, logits, num_classes) ==
    IF num_classes = 2
    THEN [cal_accuracy |->
              Some(calc_calibrated_accuracies(yt, sigmoid_diff(logits))),
          calibration |->
              Some(calc_calibrated_errors(yt, sigmoid_diff(logits)))]
    ELSE [cal_accuracy |-> None, calibration |-> None]

\* eval.py:137-168: [ok, value]: value is the EvalResult, or the error
\* calc_auroc raised
calc_eval_results(yt, logits, ensembling, num_classes) ==
    LET acc == calc_accuracies(logits, yt)
        cal == CalFields(yt, logits, num_classes)
        auroc == calc_auroc(logits, yt, ensembling, num_classes)
    IN IF auroc.ok
       THEN [ok |-> TRUE,
             value |-> [accuracy |-> acc,
                        cal_accuracy |-> cal.cal_accuracy,
                        calibration |-> cal.calibration,
                        roc_auc |-> auroc.value]]
       ELSE auroc

\* partial ensembling treated like full ensembling
evaluate_preds_args_partial_as_full(yt, logits, ensembling) ==
    LET num_variants == logits.shape[2]
        num_classes == logits.shape[3]
    IN IF ensembling \in {"full", "partial"}
       THEN [y_true |-> yt, y_logits |-> mean_dim1(logits),
             ensembling |-> ensembling, num_classes |-> num_classes]
       ELSE [y_true |-> repeat_n_v(yt, num_variants), y_logits |-> logits,
             ensembling |-> ensembling, num_classes |-> num_classes]

\* eval.py:126-134: the arguments evaluate_preds passes on
evaluate_preds_args(yt, logits, ensembling) ==
    LET num_variants == logits.shape[2]
        num_classes == logits.shape[3]
    IN IF ensembling = "full"
       THEN [y_true |-> yt, y_logits |-> mean_dim1(logits),
             ensembling |-> ensembling, num_classes |-> num_classes]
       ELSE [y_true |-> repeat_n_v(yt, num_variants), y_logits |-> logits,
             ensembling |-> ensembling, num_classes |-> num_classes]

\* eval.py:111-134
evaluate_preds(yt, logits, ensembling) ==
    LET a == evaluate_preds_args(yt, logits, ensembling)
    IN calc_eval_results(a.y_true, a.y_logits, a.ensembling, a.num_classes)

RECURSIVE Prefixed(_, _)
\* {f"{prefix}{k}": v for k, v in items}
Prefixed(prefix, items) ==
    IF items = <<>> THEN <<>>
    ELSE << <<prefix \o Head(items)[1], Head(items)[2]>> >>
         \o Prefixed(prefix, Tail(items))

\* eval.py:27-41: the items of the dictionary, in insertion order
to_dict(r, prefix) ==
    LET acc_dict == Prefixed(prefix \o "acc_", asdict(r.accuracy))
        cal_acc_dict == IF r.cal_accuracy # None
                        THEN Prefixed(prefix \o "cal_acc_", asdict(r.cal_accuracy[1]))
                        ELSE <<>>
        cal_dict == IF r.calibration # None
                    THEN << <<prefix \o "ece", r.calibration[1].ece>> >>
                    ELSE <<>>
        auroc_dict == Prefixed(prefix \o "auroc_", asdict(r.roc_auc))
    IN auroc_dict \o cal_acc_dict \o acc_dict \o cal_dict

\* ------------------------------------------------------------------- Init
SweepInit ==
    /\ \E n \in 1 .. MaxLayers : layers = LayerList(n)
    /\ num_devices \in 1 .. MaxDevices
    /\ raises \in SUBSET (0 .. MaxLayers - 1)
    /\ raises \subseteq Range(layers)
    /\ pc = "start"
    /\ pids = <<>>
    /\ nextTask = 1
    /\ busy = <<>>
    /\ device = <<>>
    /\ outq = <<>>
    /\ row_buf = <<>>
    /\ exc = <<>>
    /\ fileExists = FALSE
    /\ fileRows = <<>>
    /\ writes = 0
    /\ runningAtWrite = {}
    /\ completed = <<>>
    /\ doneBeforeFail = {}
    /\ workerExc = <<>>
    /\ interrupted = FALSE

\* ---------------------------------------------------------------- actions
\* run.py:125-127: mp.Pool(num_devices) forks the workers, open(..., "w")
\* creates or truncates the file, then the loop starts
Enter ==
    /\ pc = "start"
    /\ \E p \in [1 .. num_devices -> 1 .. MaxPid] :
         /\ \A i, j \in 1 .. num_devices : i < j => p[i] < p[j]
         /\ pids' = p
    /\ busy' = [w \in Workers |-> <<>>]
    /\ device' = [w \in Workers |-> <<>>]
    /\ fileExists' = TRUE
    /\ fileRows' = <<>>
    /\ pc' = "collect"
    /\ UNCHANGED <<layers, num_devices, raises, nextTask, outq, row_buf, exc,
                   writes, runningAtWrite, completed, doneBeforeFail,
                   workerExc, interrupted>>
    /\ UNCHANGED <<evalVars, callVars>>

PoolAlive == pc = "collect"

\* a worker of the pool takes the next task: func(layer) starts and
\* train.py:270 asks get_device for the device of this process
WorkerStart(w) ==
    /\ PoolAlive
    /\ num_devices > 1
    /\ busy[w] = <<>>
    /\ nextTask <= Len(layers)
    /\ busy' = [busy EXCEPT ![w] = <<layers[nextTask]>>]
    /\ device' = [device EXCEPT ![w] = <<get_device(pids[w], num_devices)>>]
    /\ nextTask' = nextTask + 1
    /\ UNCHANGED <<layers, num_devices, raises, pc, pids, outq, row_buf, exc,
                   fileExists, fileRows, writes, runningAtWrite, completed,
                   doneBeforeFail, workerExc, interrupted>>
    /\ UNCHANGED <<evalVars, callVars>>

\* the worker's func(layer) returns a row or raises; either way the pool
\* hands the outcome back to the orchestrator's iterator
WorkerFinish(w) ==
    /\ PoolAlive
    /\ num_devices > 1
    /\ busy[w] # <<>>
    /\ LET l == busy[w][1] IN
         IF l \in raises
         THEN /\ outq' = Append(outq, [ok |-> FALSE, layer |-> l])
              /\ doneBeforeFail' =
                    IF \E i \in 1 .. Len(outq) : ~outq[i].ok
                       \/ workerExc # <<>>
                    THEN doneBeforeFail ELSE Range(completed)
              /\ UNCHANGED completed
         ELSE /\ outq' = Append(outq, [ok |-> TRUE, layer |-> l])
              /\ completed' = Append(completed, l)
              /\ UNCHANGED doneBeforeFail
    /\ busy' = [busy EXCEPT ![w] = <<>>]
    /\ UNCHANGED <<layers, num_devices, raises, pc, pids, nextTask, device,
                   row_buf, exc, fileExists, fileRows, writes, runningAtWrite,
                   workerExc, interrupted>>
    /\ UNCHANGED <<evalVars, callVars>>

\* run.py:132-137 and the exit of the with statement: the finally block
\* builds the frame, sorts it and writes it; the file is closed and the
\* pool terminated; an exception raised in the block replaces the one in
\* flight. (The debug dump of run.py:136-137 writes another file and is
\* left out.)
Flush(buf, e) ==
    /\ IF SortRaises(buf)
       THEN /\ exc' = KeyErrorLayer
            /\ UNCHANGED <<fileRows, writes, runningAtWrite>>
       ELSE /\ fileRows' = sort_values(buf)
            /\ writes' = writes + 1
            /\ runningAtWrite' = {w \in Workers : busy[w] # <<>>}
            /\ exc' = e
    /\ busy' = [w \in Workers |-> <<>>]
    /\ pc' = IF exc' = <<>> THEN "done" ELSE "raised"

\* run.py:130-131, pooled path: the loop takes the next outcome from
\* imap_unordered: a row is appended, a failure is re-raised
Collect ==
    /\ pc = "collect"
    /\ num_devices > 1
    /\ outq # <<>>
    /\ outq' = Tail(outq)
    /\ IF Head(outq).ok
       THEN /\ row_buf' = CollectRow(row_buf, Row(Head(outq).layer))
            /\ UNCHANGED workerExc
            /\ IF Len(row_buf') = Len(layers)
               THEN Flush(row_buf', <<>>)
               ELSE UNCHANGED <<pc, exc, busy, fileRows, writes, runningAtWrite>>
       ELSE /\ workerExc' = WorkerFailure(Head(outq).layer)
            /\ UNCHANGED row_buf
            /\ Flush(row_buf, workerExc')
    /\ UNCHANGED <<layers, num_devices, raises, pids, nextTask, device,
                   fileExists, completed, doneBeforeFail, interrupted>>
    /\ UNCHANGED <<evalVars, callVars>>

\* run.py:130-131, one device: the builtin map calls func on the next
\* layer inside the orchestrator process
SeqApply ==
    /\ pc = "collect"
    /\ num_devices = 1
    /\ nextTask <= Len(layers)
    /\ nextTask' = nextTask + 1
    /\ LET l == layers[nextTask] IN
         IF l \in raises
         THEN /\ workerExc' = WorkerFailure(l)
              /\ doneBeforeFail' = Range(completed)
              /\ UNCHANGED <<row_buf, completed>>
              /\ Flush(row_buf, workerExc')
         ELSE /\ row_buf' = CollectRow(row_buf, Row(l))
              /\ completed' = Append(completed, l)
              /\ UNCHANGED <<workerExc, doneBeforeFail>>
              /\ IF nextTask = Len(layers)
                 THEN Flush(row_buf', <<>>)
                 ELSE UNCHANGED <<pc, exc, busy, fileRows, writes,
                                  runningAtWrite>>
    /\ UNCHANGED <<layers, num_devices, raises, pids, device, outq,
                   fileExists, interrupted>>
    /\ UNCHANGED <<evalVars, callVars>>

\* the run is interrupted while the loop waits: KeyboardInterrupt is raised
\* in the orchestrator and the finally block runs
Interrupt ==
    /\ pc = "collect"
    /\ interrupted' = TRUE
    /\ Flush(row_buf, KeyboardInterrupt)
    /\ UNCHANGED <<layers, num_devices, raises, pids, nextTask, device, outq,
                   row_buf, fileExists, completed, doneBeforeFail, workerExc>>
    /\ UNCHANGED <<evalVars, callVars>>

Next ==
    \/ Enter
    \/ \E w \in Workers : WorkerStart(w)
    \/ \E w \in Workers : WorkerFinish(w)
    \/ Collect
    \/ SeqApply
    \/ Interrupt

\* the sweep's variables while the metrics engine is exercised
SweepIdle ==
    /\ layers = <<>> /\ num_devices = 1 /\ raises = {} /\ pc = "idle"
    /\ pids = <<>> /\ nextTask = 1 /\ busy = <<>> /\ device = <<>>
    /\ outq = <<>> /\ row_buf = <<>> /\ exc = <<>> /\ fileExists = FALSE
    /\ fileRows = <<>> /\ writes = 0 /\ runningAtWrite = {}
    /\ completed = <<>> /\ doneBeforeFail = {} /\ workerExc = <<>>
    /\ interrupted = FALSE

\* the metrics engine's variables while the sweep runs
EvalIdle ==
    /\ y_true = <<>> /\ y_logits = <<>> /\ epc = "idle"
    /\ handed = <<>> /\ result = <<>> /\ prefix_in = "" /\ dict_out = <<>>

\* no single call is under way
CallIdle == op = "none" /\ args = <<>> /\ ret = <<>>

Init == SweepInit /\ EvalIdle /\ CallIdle

Spec == Init /\ [][Next]_vars

\* -------------------------------------------------------------- EvalSpec
\* the values a logit takes in the inputs
LogitValues == {Rat(-1, 1), Rat(1, 1)}

\* the prefixes to_dict is called with
Prefixes == {"", "val_"}

\* every y_true of shape (n,) with labels in [0, k) and every y_logits of
\* shape (n, v, k), within the bounds
EvalInit ==
    /\ SweepIdle
    /\ CallIdle
    /\ \E n \in 1 .. MaxN, v \in 1 .. MaxV, k \in 2 .. MaxK :
         /\ n * v * k <= MaxElems
         /\ y_true \in {[shape |-> <<n>>, at |-> f] :
                          f \in [Indices(<<n>>) -> 0 .. k - 1]}
         /\ y_logits \in {[shape |-> <<n, v, k>>, at |-> f] :
                          f \in [Indices(<<n, v, k>>) -> LogitValues]}
    /\ epc = "input"
    /\ handed = <<>>
    /\ result = <<>>
    /\ prefix_in = ""
    /\ dict_out = <<>>

\* a mode value that is none of the three supported ones
UnsupportedModes == {"mean"}

\* a call evaluate_preds(y_true, y_logits, ensembling)
EvaluatePreds(ensembling) ==
    /\ epc = "input"
    /\ handed' = evaluate_preds_args(y_true, y_logits, ensembling)
    /\ result' = evaluate_preds(y_true, y_logits, ensembling)
    /\ epc' = "result"
    /\ UNCHANGED <<y_true, y_logits, prefix_in, dict_out>>
    /\ UNCHANGED <<sweepVars, callVars>>

\* a call result.to_dict(prefix)
ToDict(prefix) ==
    /\ epc = "result"
    /\ result.ok
    /\ prefix_in' = prefix
    /\ dict_out' = to_dict(result.value, prefix)
    /\ epc' = "dict"
    /\ UNCHANGED <<y_true, y_logits, handed, result>>
    /\ UNCHANGED <<sweepVars, callVars>>

EvalNext ==
    \/ \E ensembling \in EnsemblingModes \cup UnsupportedModes :
         EvaluatePreds(ensembling)
    \/ \E prefix \in Prefixes : ToDict(prefix)

EvalSpec == EvalInit /\ [][EvalNext]_vars

\* ------------------------------------------------------ claims, the sweep
Terminated == pc \in {"done", "raised"}

LayersOf(rows) == {rows[i].layer : i \in 1 .. Len(rows)}

StrictlyLayerSorted(rows) ==
    \A i, j \in 1 .. Len(rows) : i < j => rows[i].layer < rows[j].layer

\* C1: whenever the loop is aborted by an exception (a layer's work raised
\* or the run was interrupted), whatever the number of rows collected, the
\* flush has run when the exception leaves apply_to_layers: the table of
\* all rows collected so far was written to the file.
C1_FlushOnAbort ==
    (pc = "raised" /\ (workerExc # <<>> \/ interrupted))
        => /\ writes = 1
           /\ LayersOf(fileRows) = LayersOf(row_buf)
           /\ Len(fileRows) = Len(row_buf)

\* C2: whatever the order in which the workers' results arrived, the rows
\* of the written table are in increasing order of layer and are the rows
\* collected, so the written order does not depend on arrival order.
C2_RowsLayerSorted ==
    writes > 0
        => /\ StrictlyLayerSorted(fileRows)
           /\ LayersOf(fileRows) = LayersOf(row_buf)
           /\ Len(fileRows) = Len(row_buf)

\* a table was written from rows that arrived out of layer order
C2_Witness ==
    /\ writes = 1
    /\ num_devices > 1
    /\ \E i, j \in 1 .. Len(row_buf) : i < j /\ row_buf[i].layer > row_buf[j].layer

\* C3: when the work of exactly one layer raises (and the run is not
\* interrupted), the rows of the file after the run are the rows of exactly
\* the layers whose work completed before the failure, in layer order, on
\* one device and on several.
C3_RowsAreLayersDoneBeforeFailure ==
    (pc = "raised" /\ Cardinality(raises) = 1 /\ ~interrupted)
        => /\ LayersOf(fileRows) = doneBeforeFail
           /\ Len(fileRows) = Cardinality(doneBeforeFail)
           /\ StrictlyLayerSorted(fileRows)

\* a pooled sweep aborted by its one failing layer after two other layers
\* completed out of layer order, while a fourth result was never awaited
C3_Witness ==
    /\ pc = "raised"
    /\ Cardinality(raises) = 1
    /\ ~interrupted
    /\ num_devices > 1
    /\ Cardinality(doneBeforeFail) = 2
    /\ row_buf[1].layer > row_buf[2].layer

Scenario4 == layers = <<0, 1, 2>> /\ raises = {1} /\ ~interrupted

\* C4 as claimed: layers [0,1,2], layer 1 raises: the file ends with
\* exactly the rows of layers 0 and 2, in that order, for every number of
\* devices and every interleaving.
C4_RowsAre0And2 ==
    (Terminated /\ Scenario4) => fileRows = <<Row(0), Row(2)>>

\* C4 amended: layers [0,1,2], layer 1 raises: the run ends with an
\* exception; the file never holds a row of layer 1; its rows are those of
\* the layers among 0 and 2 that completed before layer 1's failure, in
\* layer order; on one device that is exactly the row of layer 0.
C4_RowsBeforeFailureOnly ==
    (Terminated /\ Scenario4)
        => /\ pc = "raised"
           /\ LayersOf(fileRows) = doneBeforeFail
           /\ LayersOf(fileRows) \subseteq {0, 2}
           /\ StrictlyLayerSorted(fileRows)
           /\ Len(fileRows) = Cardinality(LayersOf(fileRows))
           /\ (num_devices = 1 => fileRows = <<Row(0)>>)

\* the pooled scenario in which layers 0 and 2 both finished before layer
\* 1 failed
C4_Witness ==
    /\ Terminated /\ Scenario4
    /\ num_devices > 1
    /\ doneBeforeFail = {0, 2}
    /\ workerExc = WorkerFailure(1)
    /\ fileRows = <<Row(0), Row(2)>>

\* C5: when a layer's work raises, apply_to_layers ends by propagating
\* that worker failure itself, for every number of layers completed
\* before it, zero included.
C5_WorkerFailurePropagates ==
    (Terminated /\ workerExc # <<>>) => exc = workerExc

\* C6: at every moment of a pooled sweep no two live workers of the pool
\* hold the same device.
C6_DevicesExclusive ==
    (pc = "collect" /\ num_devices > 1)
        => \A w1, w2 \in Workers :
             (w1 # w2 /\ device[w1] # <<>> /\ device[w2] # <<>>)
                 => device[w1] # device[w2]

\* C7: in every run the table file is written exactly once, and when it is
\* written no worker is still running a layer's work.
C7_WrittenOnceNoWorkerRunning ==
    Terminated => (writes = 1 /\ runningAtWrite = {})

FirstLayerFailedFirst ==
    /\ pc = "raised"
    /\ workerExc = WorkerFailure(layers[1])
    /\ doneBeforeFail = {}

NumClasses == y_logits.shape[3]

Keys(items) == {items[i][1] : i \in 1 .. Len(items)}

Fields == {"point", "low", "high"}

\* C9: an EvalResult has cal_accuracy and calibration exactly when k = 2;
\* to_dict(prefix) has the keys prefix+"cal_acc_*" and prefix+"ece" exactly
\* when k = 2, and the prefix+"auroc_*" and prefix+"acc_*" keys for every k.
C9_CalibrationIffBinary ==
    /\ (epc \in {"result", "dict"} /\ result.ok)
         => /\ (result.value.cal_accuracy # None) <=> (NumClasses = 2)
            /\ (result.value.calibration # None) <=> (NumClasses = 2)
    /\ epc = "dict"
         => LET p == prefix_in
                cal == {p \o "cal_acc_" \o f : f \in Fields} \cup {p \o "ece"}
                always == {p \o "auroc_" \o f : f \in Fields}
                              \cup {p \o "acc_" \o f : f \in Fields}
            IN /\ always \subseteq Keys(dict_out)
               /\ NumClasses = 2 => cal \subseteq Keys(dict_out)
               /\ NumClasses # 2 => cal \cap Keys(dict_out) = {}
               /\ Keys(dict_out) \subseteq always \cup cal

\* a three-class result serialised with a prefix
C9_Witness ==
    /\ epc = "dict"
    /\ NumClasses = 3
    /\ prefix_in = "val_"
    /\ Len(dict_out) = 6

\* C10: under mode full evaluate_preds hands on logits of shape (n, k),
\* each the mean over the variants, with y_true unchanged; under none and
\* partial it hands on the logits unchanged with y_true broadcast to
\* (n, v), every variant column being the label.
C10_EnsemblingTransform ==
    epc \in {"result", "dict"}
        => LET n == y_logits.shape[1]
               v == y_logits.shape[2]
               k == y_logits.shape[3]
           IN IF handed.ensembling = "full"
              THEN /\ handed.y_true = y_true
                   /\ handed.y_logits.shape = <<n, k>>
                   /\ DOMAIN handed.y_logits.at = Indices(<<n, k>>)
                   /\ \A i \in 0 .. n - 1, c \in 0 .. k - 1 :
                        LET m == handed.y_logits.at[<<i, c>>]
                            total == RatSum([j \in 0 .. v - 1 |->
                                               y_logits.at[<<i, j, c>>]], v)
                        IN m.den > 0 /\ m.num * v * total.den = total.num * m.den
              ELSE /\ handed.y_logits = y_logits
                   /\ handed.y_true.shape = <<n, v>>
                   /\ DOMAIN handed.y_true.at = Indices(<<n, v>>)
                   /\ \A i \in 0 .. n - 1, j \in 0 .. v - 1 :
                        handed.y_true.at[<<i, j>>] = y_true.at[<<i>>]

\* full ensembling of two examples whose two variants disagree
C10_Witness ==
    /\ epc = "result"
    /\ handed.ensembling = "full"
    /\ y_logits.shape = <<2, 2, 2>>
    /\ y_logits.at[<<0, 0, 1>>] # y_logits.at[<<0, 1, 1>>]
    /\ handed.y_logits.shape = <<2, 2>>

\* C11: a call of evaluate_preds, and the call of calc_auroc it makes, with
\* a mode outside {none, partial, full} ends in the unknown-mode error and
\* yields no EvalResult; with one of the three modes it yields a result.
C11_UnknownModeRejected ==
    epc \in {"result", "dict"}
        => /\ (handed.ensembling \notin {"none", "partial", "full"})
                 => /\ ~result.ok
                    /\ result.value = <<"ValueError", "Unknown mode">>
                    /\ epc # "dict"
                    /\ ~calc_auroc(handed.y_logits, handed.y_true,
                                   handed.ensembling, handed.num_classes).ok
           /\ (handed.ensembling \in {"none", "partial", "full"}) => result.ok

\* a call with an unsupported mode on a binary tensor with two variants
C11_Witness ==
    /\ epc = "result"
    /\ handed.ensembling = "mean"
    /\ y_logits.shape[2] = 2
    /\ NumClasses = 2
    /\ ~result.ok

\* --------------------------------------------------------------- CalSpec
\* the longest y_true / pos_probs handed to calc_calibrated_accuracies and
\* the number of levels above 0 a probability's logit takes
MaxCalN == 3
MaxProbLevel == 2

\* every binary y_true of shape (n,) and every pos_probs of shape (n,),
\* within the bounds
CalInit ==
    /\ SweepIdle
    /\ EvalIdle
    /\ op = "calc_calibrated_accuracies"
    /\ \E n \in 1 .. MaxCalN :
         args \in {[y_true |-> [shape |-> <<n>>, at |-> f],
                    pos_probs |-> [shape |-> <<n>>,
                                   at |-> [idx \in Indices(<<n>>) |->
                                             [sigmoid |-> Rat(g[idx], 1)]]]] :
                     f \in [Indices(<<n>>) -> {0, 1}],
                     g \in [Indices(<<n>>) -> 0 .. MaxProbLevel]}
    /\ ret = <<>>

\* a call calc_calibrated_accuracies(y_true, pos_probs)
CalcCalibratedAccuracies ==
    /\ op = "calc_calibrated_accuracies"
    /\ ret = <<>>
    /\ ret' = [cal_preds |-> cal_preds(args.y_true, args.pos_probs),
               cal_acc |-> calc_calibrated_accuracies(args.y_true, args.pos_probs)]
    /\ UNCHANGED <<op, args>>
    /\ UNCHANGED <<sweepVars, evalVars>>

CalNext == CalcCalibratedAccuracies

CalSpec == CalInit /\ [][CalNext]_vars

CountOf(t, x) == Cardinality({idx \in Indices(t.shape) : t.at[idx] = x})

PairwiseDistinct(t) ==
    \A i, j \in Indices(t.shape) : i # j => t.at[i] # t.at[j]

\* C12: for binary y_true in which both classes occur and pairwise
\* distinct pos_probs, the predictions pos_probs > threshold have the
\* class balance of y_true: as many examples are predicted positive as
\* are truly positive.
C12_PredictedBalanceIsTrueBalance ==
    (/\ op = "calc_calibrated_accuracies"
     /\ ret # <<>>
     /\ PairwiseDistinct(args.pos_probs)
     /\ CountOf(args.y_true, 1) > 0
     /\ CountOf(args.y_true, 0) > 0)
        => CountOf(ret.cal_preds, 1) = CountOf(args.y_true, 1)

\* --------------------------------------------------------------- EnsSpec
\* torch.stack(ts) followed by torch.mean(..., dim=0): the entrywise mean
\* of the tensors of a non-empty sequence
mean_stack(ts) ==
    LET m == Len(ts)
        shape == ts[1].shape
    IN [shape |-> shape,
        at |-> [idx \in Indices(shape) |->
                  LET s == RatSum([l \in 0 .. m - 1 |-> ts[l + 1].at[idx]], m)
                  IN Rat(s.num, s.den * m)]]

\* the ground truth of the last element of the truncated sequence
ensembling_y_true_last(y_trues) ==
    [ok |-> TRUE, value |-> y_trues[Len(y_trues)]]

\* eval.py:209 y_trues[2]: the third element, or IndexError
ensembling_y_true(y_trues) ==
    IF Len(y_trues) >= 3
    THEN [ok |-> TRUE, value |-> y_trues[3]]
    ELSE [ok |-> FALSE, value |-> <<"IndexError", "list index out of range">>]

\* the later half taken one layer too early
later_half_early(s) == SubSeq(s, (Len(s) \div 2), Len(s))

\* eval.py:199-201 s[len(s) // 2:]
later_half(s) == SubSeq(s, (Len(s) \div 2) + 1, Len(s))

\* eval.py:183-213: the arguments layer_ensembling gives calc_eval_results,
\* or the error raised before the call. layer_outputs[l][1] is the first
\* element of the l-th per-layer output.
layer_ensembling_args(layer_outputs) ==
    LET m == Len(layer_outputs)
        y_logits_means == [l \in 1 .. m |->
                             mean_dim1(layer_outputs[l][1].val_credences)]
        y_trues_all == [l \in 1 .. m |-> layer_outputs[l][1].val_gt]
        num_classes == layer_outputs[1][1].val_credences.shape[3]
        y_trues == later_half(y_trues_all)
        yl == later_half(y_logits_means)
        yt == ensembling_y_true(y_trues)
    IN IF yt.ok
       THEN [ok |-> TRUE,
             value |-> [y_true |-> yt.value, y_logits |-> mean_stack(yl),
                        ensembling |-> "full", num_classes |-> num_classes]]
       ELSE yt

\* eval.py:171-213
layer_ensembling(layer_outputs) ==
    LET a == layer_ensembling_args(layer_outputs)
    IN IF a.ok
       THEN calc_eval_results(a.value.y_true, a.value.y_logits,
                              a.value.ensembling, a.value.num_classes)
       ELSE a

\* the longest sweep handed to layer_ensembling
MaxEnsLayers == 7

\* the validation credences of one layer, shape (1, 2, 2), the two prompt
\* variants differing, one tensor for each level
CredenceLevels == {0, 1}

Credences(a) ==
    [shape |-> <<1, 2, 2>>,
     at |-> [idx \in Indices(<<1, 2, 2>>) |->
               Rat(IF idx[3] = 1 THEN a + idx[2] ELSE a * idx[2], 1)]]

\* one per-layer output: a list whose first element holds the validation
\* ground truth and the validation credences
LayerOutputs ==
    {<<[val_gt |-> [shape |-> <<1>>, at |-> [idx \in Indices(<<1>>) |-> g]],
        val_credences |-> Credences(a)]>> :
       g \in {0, 1}, a \in CredenceLevels}

EnsInit ==
    /\ SweepIdle
    /\ EvalIdle
    /\ op = "layer_ensembling"
    /\ \E m \in 1 .. MaxEnsLayers :
         args \in {[layer_outputs |-> lo] : lo \in [1 .. m -> LayerOutputs]}
    /\ ret = <<>>

\* a call layer_ensembling(layer_outputs)
LayerEnsembling ==
    /\ op = "layer_ensembling"
    /\ ret = <<>>
    /\ ret' = [handed |-> layer_ensembling_args(args.layer_outputs),
               result |-> layer_ensembling(args.layer_outputs)]
    /\ UNCHANGED <<op, args>>
    /\ UNCHANGED <<sweepVars, evalVars>>

EnsNext == LayerEnsembling

EnsSpec == EnsInit /\ [][EnsNext]_vars

EnsCalled == op = "layer_ensembling" /\ ret # <<>>

\* the sum over the layers at 0-based positions from..m-1 and over the
\* variants of the credence of class c of the one example
RECURSIVE CredenceTotal(_, _, _)
CredenceTotal(los, from, c) ==
    IF from >= Len(los) THEN 0
    ELSE LET t == los[from + 1][1].val_credences
         IN t.at[<<0, 0, c>>].num + t.at[<<0, 1, c>>].num
            + CredenceTotal(los, from + 1, c)

\* C13: for a sweep of m layers that layer_ensembling scores (m >= 5), it
\* scores with mode full the mean, over exactly the layers at positions
\* i >= m // 2, of their variant-averaged validation credences, against
\* the validation ground truth of the layer at position m // 2 + 2.
C13_LaterHalfMeanThirdGroundTruth ==
    (EnsCalled /\ Len(args.layer_outputs) >= 5)
        => LET los == args.layer_outputs
               m == Len(los)
               mid == m \div 2
               h == ret.handed.value
           IN /\ ret.handed.ok
              /\ ret.result.ok
              /\ h.ensembling = "full"
              /\ h.y_true = los[mid + 2 + 1][1].val_gt
              /\ h.y_logits.shape = <<1, 2>>
              /\ \A c \in 0 .. 1 :
                   LET x == h.y_logits.at[<<0, c>>]
                   IN /\ x.den > 0
                      /\ x.num * 2 * (m - mid) = x.den * CredenceTotal(los, mid, c)

\* a sweep of seven layers: the third element of the later half is not its
\* last one, its ground truth differs from that of the other layers of
\* the later half, and the earlier half holds other credences
C13_Witness ==
    /\ EnsCalled
    /\ Len(args.layer_outputs) = 7
    /\ ret.result.ok
    /\ args.layer_outputs[6][1].val_gt # args.layer_outputs[7][1].val_gt
    /\ args.layer_outputs[6][1].val_gt # args.layer_outputs[4][1].val_gt
    /\ args.layer_outputs[1][1].val_credences # args.layer_outputs[7][1].val_credences

\* C16: layer_ensembling returns an EvalResult for every non-empty
\* sequence of per-layer outputs, whatever its length.
C16_ReturnsForEveryLength ==
    (EnsCalled /\ Len(args.layer_outputs) >= 1) => ret.result.ok

\* ------------------------------------------------ evaluate_and_save
MaxLrModels == 2

\* the dataset names of a run
DatasetNames == {"imdb", "amazon_polarity"}

\* PromptEnsembling.all(): the three modes; a member's value is its name
PromptEnsembling_all == <<"none", "partial", "full">>

\* a ground truth of one example
GroundTruth(g) == [shape |-> <<1>>, at |-> [idx \in Indices(<<1>>) |-> g]]

\* a dictionary without keys
NoItems == [x \in {} |-> x]

\* train.py:53-107: one row to score: its category, the ground truth and
\* the predictions handed to evaluate_preds, and the items the row holds
\* besides meta, the mode and the metrics
Job(cat, meta, mode, gt, preds, extra) ==
    [cat |-> cat, meta |-> meta, mode |-> mode, gt |-> gt, preds |-> preds,
     extra |-> extra]

\* a loop over the baseline classifiers that scores only the first one
lr_jobs_first_only(meta, mode, val, lr_models) ==
    [i \in 1 .. (IF Len(lr_models) > 0 THEN 1 ELSE 0) |->
       Job("lr_eval", meta, mode, val.gt, lr_models[i][val.h],
           [inlp_iter |-> i - 1])]

\* train.py:97-107: one lr_eval row per baseline classifier, numbered
\* from 0
lr_jobs(meta, mode, val, lr_models) ==
    [i \in 1 .. Len(lr_models) |->
       Job("lr_eval", meta, mode, val.gt, lr_models[i][val.h],
           [inlp_iter |-> i - 1])]

\* train.py:75-95: a row scored against language-model predictions, if
\* there are any
lm_jobs(cat, meta, mode, gt, lm_preds) ==
    IF lm_preds # None
    THEN <<Job(cat, meta, mode, gt, lm_preds[1], NoItems)>>
    ELSE <<>>

\* train.py:52-107: the rows of one pass of the loop over the modes, in
\* the order in which they are scored
pass_jobs(a, ds_name, mode) ==
    LET val == a.val_dict.at[ds_name]
        train == a.train_dict.at[ds_name]
        meta == [dataset |-> ds_name, layer |-> a.layer]
    IN <<Job("eval", meta, mode, val.gt, a.reporter[val.h],
             [train_loss |-> a.train_loss]),
         Job("train_eval", meta, mode, train.gt, a.reporter[train.h],
             [train_loss |-> a.train_loss])>>
       \o lm_jobs("lm_eval", meta, mode, val.gt, val.lm_preds)
       \o lm_jobs("train_lm_eval", meta, mode, train.gt, train.lm_preds)
       \o lr_jobs(meta, mode, val, a.lr_models)

RECURSIVE mode_loop(_, _, _)
\* train.py:52 for prompt_ensembling in PromptEnsembling.all(), from the
\* i-th mode on
mode_loop(a, ds_name, i) ==
    IF i > Len(PromptEnsembling_all) THEN <<>>
    ELSE pass_jobs(a, ds_name, PromptEnsembling_all[i])
         \o mode_loop(a, ds_name, i + 1)

RECURSIVE dataset_loop(_, _)
\* train.py:36 for ds_name in val_dict, from the i-th key on
dataset_loop(a, i) ==
    IF i > Len(a.val_dict.keys) THEN <<>>
    ELSE mode_loop(a, a.val_dict.keys[i], 1) \o dataset_loop(a, i + 1)

\* train.py:53-59 {**meta, "prompt_ensembling": mode,
\*                 **evaluate_preds(gt, preds, mode).to_dict(), ...}
\* for the outcome r of evaluate_preds
ScoredRow(job, r) ==
    IF r.ok
    THEN [ok |-> TRUE,
          cat |-> job.cat,
          value |-> [dataset |-> job.meta.dataset,
                     layer |-> job.meta.layer,
                     prompt_ensembling |-> job.mode,
                     metrics |-> to_dict(r.value, "")] @@ job.extra]
    ELSE [ok |-> FALSE, cat |-> job.cat, value |-> r.value]

RECURSIVE score_from(_, _)
\* the rows of the jobs from the i-th on, scored in order
score_from(jobs, i) ==
    IF i > Len(jobs) THEN <<>>
    ELSE <<ScoredRow(jobs[i], evaluate_preds(jobs[i].gt, jobs[i].preds, jobs[i].mode))>>
         \o score_from(jobs, i + 1)

RECURSIVE FirstRaised(_, _)
\* the first evaluate_preds call from the i-th on that raised, if any
FirstRaised(scored, i) ==
    IF i > Len(scored) THEN None
    ELSE IF ~scored[i].ok THEN Some(scored[i].value)
    ELSE FirstRaised(scored, i + 1)

RECURSIVE RowsOf(_, _, _)
\* row_bufs[cat]: the rows of a category, from the i-th scored row on
RowsOf(scored, cat, i) ==
    IF i > Len(scored) THEN <<>>
    ELSE (IF scored[i].cat = cat THEN <<scored[i].value>> ELSE <<>>)
         \o RowsOf(scored, cat, i + 1)

\* train.py:37-50: the LayerOutput that eval_all appends for a dataset
layer_output_of(a, ds_name) ==
    [val_gt |-> a.val_dict.at[ds_name].gt,
     val_credences |-> a.reporter[a.val_dict.at[ds_name].h],
     meta |-> [dataset |-> ds_name, layer |-> a.layer]]

\* train.py:26-111: what evaluate_and_save returns or raises, given the
\* scored rows of its loops; a category without rows stands for a key that
\* row_bufs does not hold
evaluate_and_save(a, scored) ==
    IF FirstRaised(scored, 1) # None
    THEN [ok |-> FALSE, value |-> FirstRaised(scored, 1)[1]]
    ELSE [ok |-> TRUE,
          value |-> [layer_output |->
                       [i \in 1 .. Len(a.val_dict.keys) |->
                          layer_output_of(a, a.val_dict.keys[i])],
                     row_bufs |-> [eval |-> RowsOf(scored, "eval", 1),
                                   train_eval |-> RowsOf(scored, "train_eval", 1),
                                   lm_eval |-> RowsOf(scored, "lm_eval", 1),
                                   train_lm_eval |-> RowsOf(scored, "train_lm_eval", 1),
                                   lr_eval |-> RowsOf(scored, "lr_eval", 1)]]]

\* the orders in which a dictionary can hold the names of nms
KeyOrders(nms) ==
    {ks \in [1 .. Cardinality(nms) -> nms] :
       \A i, j \in 1 .. Cardinality(nms) : i # j => ks[i] # ks[j]}

\* one dataset's (hidden, ground truth, optional LM predictions); a hidden
\* state is named by a level
Prepared ==
    [h : CredenceLevels, gt : {GroundTruth(1)},
     lm_preds : {None, Some(Credences(1))}]

\* a reporter and the baseline classifiers map a hidden state to credences
ReporterOutput == [h \in CredenceLevels |-> Credences(h)]

ClassifierOutput == [h \in CredenceLevels |-> Credences(1 - h)]

TrainLosses == {None, Some(Rat(1, 2))}

SaveInit ==
    /\ SweepIdle
    /\ EvalIdle
    /\ op = "evaluate_and_save"
    /\ \E nms \in (SUBSET DatasetNames) \ {{}} :
         \E ks \in KeyOrders(nms) :
           \E vd \in [nms -> Prepared], tl \in [nms -> {None, Some(Credences(0))}],
              b \in 0 .. MaxLrModels, layer \in {0, MaxLayers - 1},
              train_loss \in TrainLosses :
             args = [train_loss |-> train_loss,
                     reporter |-> ReporterOutput,
                     train_dict |-> [keys |-> ks,
                                     at |-> [d \in nms |->
                                               [h |-> 0, gt |-> GroundTruth(1),
                                                lm_preds |-> tl[d]]]],
                     val_dict |-> [keys |-> ks, at |-> vd],
                     lr_models |-> [i \in 1 .. b |-> ClassifierOutput],
                     layer |-> layer]
    /\ ret = <<>>

\* a call evaluate_and_save(train_loss, reporter, train_dict, val_dict,
\* lr_models, layer)
EvaluateAndSave ==
    /\ op = "evaluate_and_save"
    /\ ret = <<>>
    /\ \E scored \in {score_from(dataset_loop(args, 1), 1)} :
         ret' = evaluate_and_save(args, scored)
    /\ UNCHANGED <<op, args>>
    /\ UNCHANGED <<sweepVars, evalVars>>

SaveNext == EvaluateAndSave

SaveSpec == SaveInit /\ [][SaveNext]_vars

SaveCalled == op = "evaluate_and_save" /\ ret # <<>>

\* the rows of a category with the given dataset, layer and mode
RowsAt(rows, d, l, m) ==
    {i \in 1 .. Len(rows) :
       /\ rows[i].dataset = d
       /\ rows[i].layer = l
       /\ rows[i].prompt_ensembling = m}

\* the (dataset, layer, mode) keys of a category
KeysOf(rows) ==
    {<<rows[i].dataset, rows[i].layer, rows[i].prompt_ensembling>> :
       i \in 1 .. Len(rows)}

ModeSet == {PromptEnsembling_all[i] : i \in 1 .. Len(PromptEnsembling_all)}

\* C14: for D datasets and B baseline classifiers evaluate_and_save
\* records one LayerOutput per dataset and, per dataset and mode, one eval
\* row, one train_eval row, B lr_eval rows with inlp_iter 0..B-1, one
\* lm_eval row iff validation LM predictions were supplied and one
\* train_lm_eval row iff training LM predictions were supplied; every row
\* carries the dataset, the given layer and the mode, and eval and
\* train_eval cover the same keys.
C14_RowsPerDatasetAndMode ==
    SaveCalled
        => LET a == args
               ks == a.val_dict.keys
               nms == {ks[i] : i \in 1 .. Len(ks)}
               b == Len(a.lr_models)
               out == ret.value.layer_output
               bufs == ret.value.row_bufs
               all == bufs.eval \o bufs.train_eval \o bufs.lm_eval
                        \o bufs.train_lm_eval \o bufs.lr_eval
           IN /\ ret.ok
              /\ Len(out) = Len(ks)
              /\ \A d \in nms :
                   Cardinality({i \in 1 .. Len(out) : out[i].meta.dataset = d}) = 1
              /\ \A i \in 1 .. Len(all) :
                   /\ all[i].dataset \in nms
                   /\ all[i].layer = a.layer
                   /\ all[i].prompt_ensembling \in ModeSet
              /\ \A d \in nms, m \in ModeSet :
                   /\ Cardinality(RowsAt(bufs.eval, d, a.layer, m)) = 1
                   /\ Cardinality(RowsAt(bufs.train_eval, d, a.layer, m)) = 1
                   /\ Cardinality(RowsAt(bufs.lm_eval, d, a.layer, m))
                        = IF a.val_dict.at[d].lm_preds # None THEN 1 ELSE 0
                   /\ Cardinality(RowsAt(bufs.train_lm_eval, d, a.layer, m))
                        = IF a.train_dict.at[d].lm_preds # None THEN 1 ELSE 0
                   /\ Cardinality(RowsAt(bufs.lr_eval, d, a.layer, m)) = b
                   /\ {bufs.lr_eval[i].inlp_iter :
                         i \in RowsAt(bufs.lr_eval, d, a.layer, m)} = 0 .. b - 1
              /\ KeysOf(bufs.eval) = KeysOf(bufs.train_eval)
              /\ Cardinality(ModeSet) = 3

\* two datasets and two baseline classifiers at a layer other than 0; one
\* dataset has validation LM predictions and no training ones, the other
\* has neither
C14_Witness ==
    /\ SaveCalled
    /\ ret.ok
    /\ Len(args.val_dict.keys) = 2
    /\ Len(args.lr_models) = 2
    /\ args.layer # 0
    /\ args.val_dict.at["imdb"].lm_preds # None
    /\ args.train_dict.at["imdb"].lm_preds = None
    /\ args.val_dict.at["amazon_polarity"].lm_preds = None
    /\ Len(ret.value.row_bufs.lr_eval) = 12
    /\ Len(ret.value.row_bufs.lm_eval) = 3

\* ------------------------------------------------------ Run.concatenate
MaxLayerIndex == 6
MaxOffset == 3

\* a list entry that is an int, and one that is itself a list of ints
IntEntry(l) == [kind |-> "int", v |-> l]

ListEntry(ls) == [kind |-> "list", v |-> ls]

RECURSIVE concatenate_from(_, _, _)
\* run.py:98-101: the loop over the positions offset .. len(layers) - 1
\* (pos counts from 0); subscripting an int raises TypeError
concatenate_from(ls, pos, offset) ==
    IF pos >= Len(ls) THEN [ok |-> TRUE, value |-> ls]
    ELSE LET x == ls[pos + 1]
         IN IF x.kind # "list"
            THEN [ok |-> FALSE,
                  value |-> <<"TypeError", "'int' object is not subscriptable">>]
            ELSE IF x.v = <<>>
            THEN [ok |-> FALSE,
                  value |-> <<"IndexError", "list index out of range">>]
            ELSE concatenate_from(
                     [ls EXCEPT ![pos + 1] = ListEntry(Append(x.v, x.v[1] - offset))],
                     pos + 1, offset)

\* run.py:96-102
concatenate(ls, offset) == concatenate_from(ls, offset, offset)

\* run.py:119-122: the sweep list apply_to_layers works on
sweep_layers(ls, offset) ==
    IF offset > 0 THEN concatenate(ls, offset) ELSE [ok |-> TRUE, value |-> ls]

RECURSIVE Ascending(_, _)
\* the members of a set of layer indices from l on, in ascending order
Ascending(ls, l) ==
    IF l > MaxLayerIndex THEN <<>>
    ELSE (IF l \in ls THEN <<IntEntry(l)>> ELSE <<>>) \o Ascending(ls, l + 1)

\* get_layers yields an ordered list[int] of the layers of the dataset
ConcatInit ==
    /\ SweepIdle
    /\ EvalIdle
    /\ op = "sweep_layers"
    /\ \E ls \in (SUBSET (0 .. MaxLayerIndex)) \ {{}}, offset \in 0 .. MaxOffset :
         args = [layers |-> Ascending(ls, 0), concatenated_layer_offset |-> offset]
    /\ ret = <<>>

\* apply_to_layers resolves its sweep list
ResolveLayers ==
    /\ op = "sweep_layers"
    /\ ret = <<>>
    /\ ret' = sweep_layers(args.layers, args.concatenated_layer_offset)
    /\ UNCHANGED <<op, args>>
    /\ UNCHANGED <<sweepVars, evalVars>>

ConcatNext == ResolveLayers

ConcatSpec == ConcatInit /\ [][ConcatNext]_vars

\* the layers an entry of the sweep list names
Members(x) ==
    IF x.kind = "int" THEN {x.v} ELSE {x.v[i] : i \in 1 .. Len(x.v)}

\* C15: with a concatenated layer offset o > 0 the sweep list has the
\* same number and order of entries as before and the entry for layer L
\* contains both L and L - o.
C15_EveryEntryIncludesEarlierLayer ==
    (/\ op = "sweep_layers"
     /\ ret # <<>>
     /\ args.concatenated_layer_offset > 0)
        => /\ ret.ok
           /\ Len(ret.value) = Len(args.layers)
           /\ \A i \in 1 .. Len(args.layers) :
                /\ args.layers[i].v \in Members(ret.value[i])
                /\ (args.layers[i].v - args.concatenated_layer_offset)
                     \in Members(ret.value[i])

\* ------------------------------------------- train_and_save_reporter
MaxLoss == 3

\* the values reporter.fit can return
Losses == {Rat(l, 4) : l \in 1 .. MaxLoss}

\* train.py:189: the platt_burns settings of the three nets trained, the
\* configured one first
CcsNets == <<"configured", "hack", "vanilla">>

\* train.py:169-186 train_rep(net) for the i-th net: train_loss is a
\* local of train_rep; it goes into the statistics only
train_rep(i, fit_losses) ==
    LET train_loss == Some(fit_losses[i])
        reporter == [net |-> CcsNets[i], out |-> ReporterOutput]
    IN [reporter |-> reporter,
        train_stats |-> [train_loss |-> train_loss],
        val_stats |-> [train_loss |-> train_loss]]

\* train.py:149-240 with prompt_index = None: the ReporterWithInfo
\* returned, and the reporter saved as the layer's checkpoint
train_and_save_reporter(net, fit_losses, train_dict) ==
    LET train_loss == None
    IN IF net = "ccs"
       THEN IF Len(train_dict.keys) # 1
            THEN [ok |-> FALSE,
                  value |-> <<"AssertionError", "CCS only supports single-task training">>]
            ELSE LET reporters == [i \in 1 .. Len(CcsNets) |->
                                     train_rep(i, fit_losses).reporter]
                     reporter == reporters[1]
                 IN [ok |-> TRUE,
                     value |-> [model |-> reporter,
                                train_loss |-> train_loss,
                                prompt_index |-> None,
                                checkpoint |-> reporter]]
       ELSE IF net = "eigen"
       THEN LET reporter == [net |-> "eigen", out |-> ReporterOutput]
            IN [ok |-> TRUE,
                value |-> [model |-> reporter,
                           train_loss |-> train_loss,
                           prompt_index |-> None,
                           checkpoint |-> reporter]]
       ELSE [ok |-> FALSE,
             value |-> <<"ValueError", "Unknown reporter config type">>]

\* train.py:312-325: the arguments apply_to_layer, without a probe per
\* prompt, passes to evaluate_and_save
save_args(a, info) ==
    [train_loss |-> info.train_loss,
     reporter |-> info.model.out,
     train_dict |-> a.train_dict,
     val_dict |-> a.val_dict,
     lr_models |-> a.lr_models,
     layer |-> a.layer]

TrainInit ==
    /\ SweepIdle
    /\ EvalIdle
    /\ op = "apply_to_layer"
    /\ \E nms \in (SUBSET DatasetNames) \ {{}} :
         \E ks \in KeyOrders(nms), net \in {"ccs", "eigen"},
            fit_losses \in [1 .. Len(CcsNets) -> Losses],
            layer \in {0, MaxLayers - 1} :
           args = [net |-> net,
                   fit_losses |-> fit_losses,
                   train_dict |-> [keys |-> ks,
                                   at |-> [d \in nms |->
                                             [h |-> 0, gt |-> GroundTruth(1),
                                              lm_preds |-> None]]],
                   val_dict |-> [keys |-> ks,
                                 at |-> [d \in nms |->
                                           [h |-> 1, gt |-> GroundTruth(1),
                                            lm_preds |-> None]]],
                   lr_models |-> <<ClassifierOutput>>,
                   layer |-> layer]
    /\ ret = <<>>

\* a call apply_to_layer(layer, devices, world_size, False)
ApplyToLayer ==
    /\ op = "apply_to_layer"
    /\ ret = <<>>
    /\ \E r \in {train_and_save_reporter(args.net, args.fit_losses, args.train_dict)} :
         IF r.ok
         THEN \E scored \in {score_from(dataset_loop(save_args(args, r.value), 1), 1)} :
                \E s \in {evaluate_and_save(save_args(args, r.value), scored)} :
                  ret' = IF s.ok
                         THEN [ok |-> TRUE,
                               value |-> [info |-> r.value, applied |-> s.value]]
                         ELSE s
         ELSE ret' = r
    /\ UNCHANGED <<op, args>>
    /\ UNCHANGED <<sweepVars, evalVars>>

TrainNext == ApplyToLayer

TrainSpec == TrainInit /\ [][TrainNext]_vars

\* C17: for a CCS configuration the train_loss of the returned
\* ReporterWithInfo, and of every eval and train_eval row of the layer,
\* is the loss fit returned for the reporter that is returned and
\* checkpointed, the first of the three trained.
C17_TrainLossIsFitLossOfFirst ==
    (/\ op = "apply_to_layer"
     /\ ret # <<>>
     /\ args.net = "ccs"
     /\ Len(args.train_dict.keys) = 1)
        => /\ ret.ok
           /\ ret.value.info.model.net = CcsNets[1]
           /\ ret.value.info.checkpoint = ret.value.info.model
           /\ ret.value.info.train_loss = Some(args.fit_losses[1])
           /\ \A i \in 1 .. Len(ret.value.applied.row_bufs.eval) :
                ret.value.applied.row_bufs.eval[i].train_loss
                  = Some(args.fit_losses[1])
           /\ \A i \in 1 .. Len(ret.value.applied.row_bufs.train_eval) :
                ret.value.applied.row_bufs.train_eval[i].train_loss
                  = Some(args.fit_losses[1])

====
